---------------------------- MODULE Spec2Model ----------------------------
(***************************************************************************)
(* Model of the algorithmic chandas (Sanskrit prosody) detector of          *)
(* rag_model: utils/chandas_patterns.py (split_into_syllables,              *)
(* classify_syllable, detect_chandas, CHANDAS_PATTERNS), the second         *)
(* segmenter utils/splitter.py (SanskritSplitter) and the parts of          *)
(* controllers/chandas_controller.py that read the detector's result.       *)
(*                                                                         *)
(* A text is a sequence of characters.  A character is written as a        *)
(* string that names the code point: "ka" is the consonant KA, "a" the      *)
(* independent vowel A, "sign_aa" the dependent vowel sign AA, and so on.   *)
(* Indices i are the code's 0-based indices; Read(t, i) is text[i].         *)
(* A confidence is written in hundredths: 95 is the float 0.95.             *)
(***************************************************************************)
EXTENDS Integers, Sequences, FiniteSets, TLC

\* ------------------------------------------------------------------------
\* Bounds of the model
\* ------------------------------------------------------------------------
\* longest text enumerated character by character
MaxLen == 3
\* longest run of identical syllables given as input
MaxRun == 80
\* most quarters a composed verse has
MaxQuarters == 4
\* most calls in a sequence of calls
MaxCalls == 3
\* the requests of a sequence of requests to the service
MaxRequests == 2
\* the characters of a syllable handed to the classifiers
MaxSyllable == 2

\* ------------------------------------------------------------------------
\* Characters
\* ------------------------------------------------------------------------
Virama == "virama"
Anusvara == "anusvara"
Visarga == "visarga"

\* the characters of 'ािीुूृॄेैोौंः' (chandas_patterns.py line 62)
DependentSigns ==
    {"sign_aa", "sign_i", "sign_ii", "sign_u", "sign_uu", "sign_ri",
     "sign_rri", "sign_e", "sign_ai", "sign_o", "sign_au",
     "anusvara", "visarga"}

\* the characters of 'ािीुूृॄेैोौंः।॥' (chandas_patterns.py line 70)
ClusterStop == DependentSigns \cup {"danda", "double_danda"}

\* the characters the class [।॥\n\r\s] matches (chandas_patterns.py line 52)
StripChars == {"danda", "double_danda", "nl", "cr", "space", "tab"}

\* long_vowels of classify_syllable (chandas_patterns.py line 92)
long_vowels ==
    {"aa", "ii", "uu", "e", "ai", "o", "au",
     "sign_aa", "sign_ii", "sign_uu", "sign_e", "sign_ai", "sign_o", "sign_au"}

\* SanskritSplitter.__init__ (splitter.py lines 15-30)
vowels ==
    {"a", "aa", "i", "ii", "u", "uu", "ri", "rri", "li", "lli",
     "e", "ai", "o", "au"}
consonants ==
    {"ka", "kha", "ga", "gha", "nga", "ca", "cha", "ja", "jha", "nya",
     "tta", "ttha", "dda", "ddha", "nna", "ta", "tha", "da", "dha", "na",
     "pa", "pha", "ba", "bha", "ma", "ya", "ra", "la", "va",
     "sha", "ssa", "sa", "ha"}
vowel_marks ==
    {"sign_aa", "sign_i", "sign_ii", "sign_u", "sign_uu", "sign_ri",
     "sign_rri", "sign_li", "sign_lli", "sign_e", "sign_ai", "sign_o",
     "sign_au"}

\* Python's None, for a name or an explanation that was never assigned
None == "<None>"
\* Python's None in the "pattern" field of a catalog entry
NonePattern == <<"<None>">>

\* ------------------------------------------------------------------------
\* CHANDAS_PATTERNS: the dict in insertion order
\* ------------------------------------------------------------------------
Indravajra == <<"G","G","L","G","G","L","L","G","L","L","G">>
Upendravajra == <<"L","G","L","G","G","L","L","G","L","L","G">>
Vasantatilaka == <<"G","G","L","G","L","L","G","L","G","L","G","L","L","G">>
Malini == <<"L","L","G","L","L","G","G","L","G","G","L","G","L","L","G">>
Shardula == <<"G","G","G","G","L","G","G","L","L","G","L","L","L","G","L","L","G">>

InitialCatalog ==
    << [name |-> "Anushtup", syllables_per_line |-> 8, total_syllables |-> 32,
        pattern |-> NonePattern,
        description |-> "Most common meter in Sanskrit poetry, 8 syllables per quarter"],
       [name |-> "Indravajra", syllables_per_line |-> 11, total_syllables |-> 44,
        pattern |-> Indravajra,
        description |-> "11 syllables per quarter with specific pattern"],
       [name |-> "Upendravajra", syllables_per_line |-> 11, total_syllables |-> 44,
        pattern |-> Upendravajra,
        description |-> "11 syllables per quarter, variant of Indravajra"],
       [name |-> "Vasantatilaka", syllables_per_line |-> 14, total_syllables |-> 56,
        pattern |-> Vasantatilaka,
        description |-> "14 syllables per quarter, spring-like rhythm"],
       [name |-> "Malini", syllables_per_line |-> 15, total_syllables |-> 60,
        pattern |-> Malini,
        description |-> "15 syllables per quarter"],
       [name |-> "Shardula-vikridita", syllables_per_line |-> 19, total_syllables |-> 76,
        pattern |-> Shardula,
        description |-> "19 syllables per quarter, complex meter"] >>

\* ------------------------------------------------------------------------
\* split_into_syllables
\* ------------------------------------------------------------------------
\* re.sub(r'[।॥\n\r\s]+', '', text)
Normalize(t) == SelectSeq(t, LAMBDA c : c \notin StripChars)

\* text[i]; an index outside the text raises IndexError
Read(t, i) == IF i >= 0 /\ i < Len(t) THEN t[i + 1] ELSE "IndexError"

\* while i < len(text) and text[i] in 'ािीुूृॄेैोौंः' (lines 62-64)
RECURSIVE DependentRun(_, _, _)
DependentRun(t, syllable, i) ==
    IF i < Len(t) /\ Read(t, i) \in DependentSigns
    THEN DependentRun(t, Append(syllable, Read(t, i)), i + 1)
    ELSE [syllable |-> syllable, i |-> i, raised |-> FALSE]

\* line 70 without its bound check
ClusterTakesUnguarded(t, i) == Read(t, i) \notin ClusterStop

\* if i < len(text) and text[i] not in 'ािीुूृॄेैोौंः।॥' (line 70)
ClusterTakes(t, i) == i < Len(t) /\ Read(t, i) \notin ClusterStop

\* while i < len(text) and text[i] == '्' (lines 67-72)
RECURSIVE ClusterRun(_, _, _)
ClusterRun(t, syllable, i) ==
    IF i < Len(t) /\ Read(t, i) = Virama
    THEN IF ClusterTakes(t, i + 1)
         THEN IF Read(t, i + 1) = "IndexError"
              THEN [syllable |-> Append(syllable, Virama), i |-> i + 1,
                    raised |-> TRUE]
              ELSE ClusterRun(t, syllable \o <<Virama, Read(t, i + 1)>>, i + 2)
         ELSE ClusterRun(t, Append(syllable, Virama), i + 1)
    ELSE [syllable |-> syllable, i |-> i, raised |-> FALSE]

\* one iteration of the outer loop (lines 58-75), started at index i < len(text)
ScanOne(t, i) ==
    LET dep == DependentRun(t, <<Read(t, i)>>, i + 1)
    IN  ClusterRun(t, dep.syllable, dep.i)

\* the whole loop (lines 54-77) from index i on, given the syllables so far
RECURSIVE ScanFrom(_, _, _)
ScanFrom(t, i, syls) ==
    IF i < Len(t)
    THEN LET one == ScanOne(t, i)
         IN  IF one.raised THEN [syllables |-> syls, raised |-> TRUE]
             ELSE ScanFrom(t, one.i,
                      IF one.syllable # <<>> THEN Append(syls, one.syllable)
                      ELSE syls)
    ELSE [syllables |-> syls, raised |-> FALSE]

split_into_syllables(t) == ScanFrom(Normalize(t), 0, <<>>)

\* ------------------------------------------------------------------------
\* classify_syllable
\* ------------------------------------------------------------------------
\* c in syllable
Contains(syllable, c) == \E j \in 1..Len(syllable) : syllable[j] = c

\* line 106 returning the lower-case symbol of the breakdown's "type"
DefaultWeightLower == "l"

\* the value of the final "return" of classify_syllable (line 106)
DefaultWeight == "L"

\* classify_syllable without the conjunct rule of lines 98-99
classify_syllableNoConjunct(syllable, is_line_end) ==
    IF is_line_end THEN "G"
    ELSE IF \E v \in long_vowels : Contains(syllable, v) THEN "G"
    ELSE IF Contains(syllable, Anusvara) \/ Contains(syllable, Visarga) THEN "G"
    ELSE DefaultWeight

classify_syllable(syllable, is_line_end) ==
    IF is_line_end THEN "G"
    ELSE IF \E v \in long_vowels : Contains(syllable, v) THEN "G"
    ELSE IF Contains(syllable, Virama) THEN "G"
    ELSE IF Contains(syllable, Anusvara) \/ Contains(syllable, Visarga) THEN "G"
    ELSE DefaultWeight

\* str.lower() on a classification
Lower(c) == IF c = "G" THEN "g" ELSE IF c = "L" THEN "l" ELSE c

\* ------------------------------------------------------------------------
\* detect_chandas: the classification loop (lines 121-133)
\* ------------------------------------------------------------------------
\* is_end = (i == len(syllables) - 1)
IsEnd(i, syls) == i = Len(syls) - 1

\* line 132 with the 0-based index
PositionZeroBased(i) == i

\* "position": i + 1
Position(i) == i + 1

PatternOf(syls) ==
    [k \in 1..Len(syls) |-> classify_syllable(syls[k], IsEnd(k - 1, syls))]

BreakdownOf(syls) ==
    [k \in 1..Len(syls) |->
        [syllable |-> syls[k],
         type |-> Lower(classify_syllable(syls[k], IsEnd(k - 1, syls))),
         position |-> Position(k - 1)]]

\* ------------------------------------------------------------------------
\* detect_chandas: the catalog scan (lines 136-151) and the ladder (154-181)
\* ------------------------------------------------------------------------
\* a in b, for two strings
IsSubstring(a, b) ==
    \E s \in 0..(Len(b) - Len(a)) : SubSeq(b, s + 1, s + Len(a)) = a

\* line 147 comparing the quarter pattern with the verse's pattern
PatternEquals(pattern, pat_str) == pattern = pat_str

\* info["pattern"] in pattern_str or pattern_str in info["pattern"] (line 147)
PatternMatches(pattern, pat_str) ==
    IsSubstring(pattern, pat_str) \/ IsSubstring(pat_str, pattern)

\* lines 141-151 passing over an entry that has no pattern
ExamineFixedOnly(info, total, pat_str) ==
    IF info.total_syllables = total /\ info.pattern # NonePattern
          /\ PatternMatches(info.pattern, pat_str)
    THEN "fixed" ELSE "next"

\* lines 141-151 accepting the first entry of the right count, whatever the
\* pattern
ExamineCountOnly(info, total, pat_str) ==
    IF info.total_syllables = total
    THEN IF info.pattern = NonePattern THEN "flexible" ELSE "fixed"
    ELSE "next"

\* lines 141-151 passing over the first fixed template of the catalog
ExaminePassesOverFirst(info, total, pat_str) ==
    IF info.total_syllables = total /\ info.pattern # NonePattern
          /\ PatternMatches(info.pattern, pat_str) /\ info.name # "Indravajra"
    THEN "fixed"
    ELSE IF info.total_syllables = total /\ info.pattern = NonePattern
    THEN "flexible" ELSE "next"

\* what one pass of the for loop decides for the entry info:
\* "flexible" and "fixed" end the loop (break), "next" goes on
Examine(info, total, pat_str) ==
    IF info.total_syllables = total
    THEN IF info.pattern = NonePattern THEN "flexible"
         ELSE IF PatternMatches(info.pattern, pat_str) THEN "fixed"
         ELSE "next"
    ELSE "next"

\* lines 145 and 150 giving every catalog match 0.95
ConfidenceAlwaysExact(verdict, old) == IF verdict = "next" THEN old ELSE 95

\* best_confidence after a pass: 0.85 (line 145), 0.95 (line 150)
ConfidenceOf(verdict, old) ==
    IF verdict = "flexible" THEN 85 ELSE IF verdict = "fixed" THEN 95 ELSE old

SingleQuarterName == "Anushtup (single quarter detected)"
QuartersName(k) == "Anushtup (" \o ToString(k) \o "/4 quarters)"
DerivedName(k) == "Unknown (" \o ToString(k) \o " syl/quarter)"

\* line 161 testing divisibility by 4
IsMultipleOfFour(total) == total % 4 = 0

\* elif total_syllables % 8 == 0 (line 161)
IsMultipleOfEight(total) == total % 8 = 0

\* the branch taken when best_match is None (lines 156-176)
Ladder(total) ==
    IF total = 8
    THEN [best_match |-> SingleQuarterName, best_confidence |-> 75,
          explanation |->
            "8 syllables detected - appears to be one quarter of Anushtup meter"]
    ELSE IF IsMultipleOfEight(total)
    THEN [best_match |-> QuartersName(total \div 8), best_confidence |-> 70,
          explanation |-> ToString(total) \o " syllables ("
               \o ToString(total \div 8) \o " quarters of 8) - Anushtup pattern"]
    ELSE LET syllables_per_line == IF total % 4 = 0 THEN total \div 4 ELSE 0
         IN  IF syllables_per_line > 0
             THEN [best_match |-> DerivedName(syllables_per_line),
                   best_confidence |-> 50,
                   explanation |-> ToString(total) \o " total syllables, "
                       \o ToString(syllables_per_line) \o " per quarter"]
             ELSE [best_match |-> "Unknown", best_confidence |-> 30,
                   explanation |-> "Detected " \o ToString(total)
                       \o " syllables - no standard pattern match"]

\* CHANDAS_PATTERNS.get(best_match, {}).get("description", ...) (lines 178-181)
DescriptionOf(catalog, name, total) ==
    IF \E k \in 1..Len(catalog) : catalog[k].name = name
    THEN catalog[CHOOSE k \in 1..Len(catalog) : catalog[k].name = name].description
    ELSE "Detected " \o ToString(total) \o " total syllables"

\* a pass that stores the pattern repeated to the verse's length in the entry
CatalogAfterPassRepeat(catalog, k) ==
    [catalog EXCEPT ![k].pattern =
        IF @ = NonePattern THEN @ ELSE @ \o @ \o @ \o @]

\* a pass that clears the pattern of the entry it examined
CatalogAfterPassCleared(catalog, k) ==
    [catalog EXCEPT ![k].pattern = NonePattern]

\* what one pass of the for loop leaves in CHANDAS_PATTERNS: the loop body
\* reads info (lines 141-151) and assigns only to locals
CatalogAfterPass(catalog, k) == catalog

\* ------------------------------------------------------------------------
\* SanskritSplitter.split_syllables (splitter.py)
\* ------------------------------------------------------------------------
\* re.sub(r'[\s।॥]', '', text) (line 43)
SplitterNormalize(t) == SelectSeq(t, LAMBDA c : c \notin StripChars)

\* while i < len(text) and text[i] == self.virama (lines 60-65)
RECURSIVE ConjunctRun(_, _, _)
ConjunctRun(t, syllable, i) ==
    IF i < Len(t) /\ Read(t, i) = Virama
    THEN IF i + 1 < Len(t) /\ Read(t, i + 1) \in consonants
         THEN ConjunctRun(t, syllable \o <<Virama, Read(t, i + 1)>>, i + 2)
         ELSE ConjunctRun(t, Append(syllable, Virama), i + 1)
    ELSE [syllable |-> syllable, i |-> i]

\* if i < len(text) and text[i] in marks: one optional character (68-70, 77-79)
TakeOne(t, at, marks) ==
    IF at.i < Len(t) /\ Read(t, at.i) \in marks
    THEN [syllable |-> Append(at.syllable, Read(t, at.i)), i |-> at.i + 1]
    ELSE at

\* an unknown character that is skipped without moving the index
SkipUnknownStuck(i) == i

\* else: i += 1, an unknown character is skipped (lines 71-74)
SkipUnknown(i) == i + 1

\* one iteration of the while of split_syllables (lines 49-82)
SplitterOne(t, i) ==
    IF Read(t, i) \in vowels
    THEN TakeOne(t, [syllable |-> <<Read(t, i)>>, i |-> i + 1],
                 {Anusvara, Visarga})
    ELSE IF Read(t, i) \in consonants
    THEN TakeOne(t, TakeOne(t, ConjunctRun(t, <<Read(t, i)>>, i + 1), vowel_marks),
                 {Anusvara, Visarga})
    ELSE [syllable |-> <<>>, i |-> SkipUnknown(i)]

RECURSIVE SplitterFrom(_, _, _)
SplitterFrom(t, i, syls) ==
    IF i < Len(t)
    THEN LET one == SplitterOne(t, i)
         IN  SplitterFrom(t, one.i,
                 IF one.syllable # <<>> THEN Append(syls, one.syllable) ELSE syls)
    ELSE syls

split_syllables(t) == SplitterFrom(SplitterNormalize(t), 0, <<>>)

\* ------------------------------------------------------------------------
\* ChandasController._generate_identification_process, steps 2 and 3
\* ------------------------------------------------------------------------
\* str.count of one symbol
RECURSIVE Count(_, _)
Count(str, c) ==
    IF str = <<>> THEN 0
    ELSE (IF Head(str) = c THEN 1 ELSE 0) + Count(Tail(str), c)

\* syllable_count = len(result.get('syllable_breakdown', [])) (line 136)
syllable_count(res) == Len(res.syllable_breakdown)
\* laghu_count = pattern.count('L') (line 160)
laghu_count(res) == Count(res.laghu_guru_pattern, "L")
\* guru_count = pattern.count('G') (line 161)
guru_count(res) == Count(res.laghu_guru_pattern, "G")

\* ------------------------------------------------------------------------
\* ChandasController: the values of a parsed language-model response
\* ------------------------------------------------------------------------
\* a JSON number (confidences in hundredths), a JSON string and JSON null
Num(n) == [num |-> n]
Str(x) == [str |-> x]
Null == [null |-> TRUE]
IsNum(v) == DOMAIN v = {"num"}

\* data.setdefault(key, value) (lines 247-251)
SetDefault(data, key, value) ==
    IF key \in DOMAIN data THEN data ELSE data @@ (key :> value)

\* SyllableInfo(**item) accepts the item (models.py lines 24-28)
IsSyllableInfo(item) == DOMAIN item = {"syllable", "type", "position"}

\* "syllable_breakdown" in data and data["syllable_breakdown"] (line 240)
HasBreakdown(data) ==
    /\ "syllable_breakdown" \in DOMAIN data
    /\ data.syllable_breakdown # <<>>

\* the try block of _parse_llm_response raises before the fallback test:
\* json.loads fails, the value is no object, or an item is no SyllableInfo
\* (lines 221-251)
ParseRaises(o) ==
    \/ o.kind # "json"
    \/ /\ HasBreakdown(o.data)
       /\ \E k \in 1..Len(o.data.syllable_breakdown) :
              ~IsSyllableInfo(o.data.syllable_breakdown[k])

\* lines 247-251
WithDefaults(data) ==
    SetDefault(SetDefault(SetDefault(SetDefault(SetDefault(data,
        "chandas_name", Str("Unknown")),
        "laghu_guru_pattern", <<>>),
        "explanation", Str("")),
        "confidence", Num(50)),
        "syllable_breakdown", <<>>)

\* a fallback on every parsed response
NeedsFallbackAlways(data) == TRUE

\* if not data["syllable_breakdown"] (line 254)
NeedsFallback(data) == data.syllable_breakdown = <<>>

\* str.strip(): whitespace off both ends
IsSpace(c) == c \in {"space", "nl", "cr", "tab"}
RECURSIVE LStrip(_)
LStrip(t) == IF t # <<>> /\ IsSpace(Head(t)) THEN LStrip(Tail(t)) ELSE t
RECURSIVE RStrip(_)
RStrip(t) ==
    IF t # <<>> /\ IsSpace(t[Len(t)]) THEN RStrip(SubSeq(t, 1, Len(t) - 1))
    ELSE t
Strip(t) == RStrip(LStrip(t))

\* split('\n')[0]
RECURSIVE FirstLine(_)
FirstLine(t) ==
    IF t = <<>> \/ Head(t) = "nl" THEN <<>>
    ELSE <<Head(t)>> \o FirstLine(Tail(t))

\* the except branch of _parse_llm_response (lines 262-277); the response
\* texts of the model begin with none of the prefixes of line 266
PlainText(o) ==
    [chandas_name |-> IF o.kind = "none" \/ o.text = <<>>
                      THEN Str("Unknown")
                      ELSE Str(FirstLine(Strip(o.text))),
     syllable_breakdown |-> <<>>,
     laghu_guru_pattern |-> <<>>,
     explanation |-> IF o.kind = "none" THEN Null ELSE Str(o.text),
     confidence |-> Num(70)]

\* the dict of detect_chandas as the controller holds it
FromDetector(res) ==
    [chandas_name |-> Str(res.chandas_name),
     syllable_breakdown |-> res.syllable_breakdown,
     laghu_guru_pattern |-> res.laghu_guru_pattern,
     explanation |-> Str(res.explanation),
     confidence |-> Num(res.confidence)]

\* lines 256-258: the breakdown and the pattern of the fallback
WithFallback(data, res) ==
    [data EXCEPT !.syllable_breakdown = res.syllable_breakdown,
                 !.laghu_guru_pattern = res.laghu_guru_pattern]

\* ------------------------------------------------------------------------
\* ChandasController._generate_identification_process
\* ------------------------------------------------------------------------
\* cleaned_text[:50] (line 132)
CleanedPrefix == 50
\* the first five syllables are the examples (line 137)
SampleCount == 5

Prefix(t, n) == SubSeq(t, 1, IF Len(t) < n THEN Len(t) ELSE n)

\* step 1 (lines 126-133)
Step1(shloka) ==
    LET cleaned_text == Normalize(shloka)
    IN  [step_number |-> 1,
         step_name |-> "Text Preprocessing",
         result |-> [cleaned |-> Prefix(cleaned_text, CleanedPrefix),
                     ellipsis |-> Len(cleaned_text) > CleanedPrefix]]

\* step 2 (lines 136-156)
Step2(res) ==
    LET sample == Prefix(res.syllable_breakdown, SampleCount)
    IN  [step_number |-> 2,
         step_name |-> "Syllable Segmentation (Akshara Vibhajana)",
         result |-> [total |-> syllable_count(res),
                     examples |-> [k \in 1..Len(sample) |-> sample[k].syllable],
                     ellipsis |-> syllable_count(res) > SampleCount]]

\* step 3 (lines 159-173)
Step3(res) ==
    [step_number |-> 3,
     step_name |-> "Laghu-Guru Classification (Matra Analysis)",
     result |-> [pattern |-> res.laghu_guru_pattern,
                 laghu |-> laghu_count(res),
                 guru |-> guru_count(res)]]

\* match_explanation (lines 178-188)
MatchExplanation(count) ==
    IF count = 32 THEN "matches Anushtup meter structure"
    ELSE IF count = 44
    THEN "matched against Indravajra/Upendravajra templates"
    ELSE IF count = 56 THEN "matches Vasantatilaka structure"
    ELSE IF count % 8 = 0 THEN "Likely Anushtup variant"
    ELSE "compared against database of known chandas signatures"

\* step 4 (lines 176-195)
Step4(res) ==
    [step_number |-> 4,
     step_name |-> "Pattern Matching (Chandas Parichaya)",
     result |-> [matched |-> res.chandas_name,
                 count |-> syllable_count(res),
                 explanation |-> MatchExplanation(syllable_count(res))]]

\* confidence_reason (lines 200-207)
ConfidenceReason(c) ==
    IF c >= 90 THEN "Exact match with standard pattern and syllable count"
    ELSE IF c >= 70 THEN "Strong match with minor variations"
    ELSE IF c >= 50 THEN "Partial match"
    ELSE "Low confidence"

\* step 5 (lines 198-214)
Step5(res) ==
    [step_number |-> 5,
     step_name |-> "Confidence Score Calculation",
     result |-> [confidence |-> res.confidence.num,
                 reason |-> ConfidenceReason(res.confidence.num)]]

\* the comparison of line 200 raises TypeError unless the confidence is a
\* number; pattern.count and the slices of lines 136-161 take the strings
\* and lists the records of the model carry
TracerRaises(res) == ~IsNum(res.confidence)

\* lines 124-216
generate_identification_process(shloka, res) ==
    IF TracerRaises(res)
    THEN [raised |-> TRUE, steps |-> <<>>]
    ELSE [raised |-> FALSE,
          steps |-> <<Step1(shloka), Step2(res), Step3(res), Step4(res),
                      Step5(res)>>]

\* ChandasIdentifyResponse(**result) validates (models.py lines 39-45)
IsValidResponse(res) ==
    /\ DOMAIN res.chandas_name = {"str"}
    /\ DOMAIN res.explanation = {"str"}
    /\ IsNum(res.confidence)
    /\ res.confidence.num >= 0
    /\ res.confidence.num <= 100
    /\ \A k \in 1..Len(res.syllable_breakdown) :
           IsSyllableInfo(res.syllable_breakdown[k])

\* ------------------------------------------------------------------------
\* SanskritSplitter.is_guru and identify_meter_from_pattern
\* ------------------------------------------------------------------------
\* a quarter four times over
FourTimes(quarter) == quarter \o quarter \o quarter \o quarter

\* self.long_vowels (splitter.py line 29)
self_long_vowels == {"aa", "ii", "uu", "rri", "lli", "ai", "au"}

\* self.long_vowel_marks (splitter.py line 30)
long_vowel_marks ==
    {"sign_aa", "sign_i", "sign_ii", "sign_uu", "sign_ri", "sign_rri",
     "sign_li", "sign_lli", "sign_e", "sign_ai", "sign_o", "sign_au"}

\* splitter.py lines 101-116
is_guru(syllable) ==
    IF \E v \in self_long_vowels : Contains(syllable, v) THEN TRUE
    ELSE IF \E v \in long_vowel_marks : Contains(syllable, v) THEN TRUE
    ELSE IF Contains(syllable, Anusvara) \/ Contains(syllable, Visarga) THEN TRUE
    ELSE IF Contains(syllable, Virama) THEN TRUE
    ELSE FALSE

\* the table "meters" of identify_meter_from_pattern (lines 171-202)
meters ==
    <<[name |-> "Anushtup", syllables |-> 32, per_quarter |-> 8,
       pattern |-> NonePattern],
      [name |-> "Indravajra", syllables |-> 44, per_quarter |-> 11,
       pattern |-> Indravajra],
      [name |-> "Upendravajra", syllables |-> 44, per_quarter |-> 11,
       pattern |-> Upendravajra],
      [name |-> "Vasantatilaka", syllables |-> 56, per_quarter |-> 14,
       pattern |-> Vasantatilaka],
      [name |-> "Malini", syllables |-> 60, per_quarter |-> 15,
       pattern |-> Malini]>>

\* sum(1 for a, b in zip(pattern, expected_pattern) if a == b) (line 216)
RECURSIVE Matches(_, _)
Matches(pattern, expected) ==
    IF pattern = <<>> \/ expected = <<>> THEN 0
    ELSE (IF Head(pattern) = Head(expected) THEN 1 ELSE 0)
             + Matches(Tail(pattern), Tail(expected))

\* sum(1 for q in quarters if len(q) > 4 and q[4] == 'L') (lines 225-226)
FifthLaghuCount(pattern) ==
    Cardinality({q \in 0..3 : pattern[8 * q + 5] = "L"})

\* what one pass of the for loop of lines 205-231 returns, None when it
\* goes on; confidences in hundredths, matches / len rounded down
MeterPass(info, pattern) ==
    IF Len(pattern) # info.syllables THEN Null
    ELSE IF info.pattern # NonePattern
    THEN LET expected_pattern == FourTimes(info.pattern)
             matches == Matches(pattern, expected_pattern)
         IN  IF pattern = expected_pattern
             THEN [name |-> info.name, confidence |-> 100]
             ELSE IF 10 * matches > 8 * Len(expected_pattern)
             THEN [name |-> info.name,
                   confidence |-> (100 * matches) \div Len(expected_pattern)]
             ELSE Null
    ELSE IF FifthLaghuCount(pattern) >= 3
    THEN [name |-> "Anushtup", confidence |-> 90]
    ELSE [name |-> "Anushtup", confidence |-> 60]

\* the for loop from entry k on, and the final return (lines 205-233)
RECURSIVE MeterFrom(_, _)
MeterFrom(k, pattern) ==
    IF k > Len(meters) THEN [name |-> "Unknown", confidence |-> 0]
    ELSE IF MeterPass(meters[k], pattern) # Null
    THEN MeterPass(meters[k], pattern)
    ELSE MeterFrom(k + 1, pattern)

identify_meter_from_pattern(pattern) == MeterFrom(1, pattern)

\* ------------------------------------------------------------------------
\* Inputs
\* ------------------------------------------------------------------------
\* the characters the short texts are made of: a consonant, a short
\* independent vowel, a long and a short vowel sign, the virama, the
\* anusvara, a danda, a space and a Latin letter
Alphabet ==
    {"ka", "a", "sign_aa", "sign_i", "virama", "anusvara", "danda", "space",
     "latin_a"}

RECURSIVE TextsOfLen(_)
TextsOfLen(n) ==
    IF n = 0 THEN {<<>>}
    ELSE {Append(t, c) : t \in TextsOfLen(n - 1), c \in Alphabet}

ShortTexts == UNION {TextsOfLen(n) : n \in 0..MaxLen}

\* a text whose syllables have the weights w (before the line-end rule):
\* KA for a light syllable, KA + sign AA for a heavy one
RECURSIVE Render(_)
Render(w) ==
    IF w = <<>> THEN <<>>
    ELSE (IF Head(w) = "G" THEN <<"ka", "sign_aa">> ELSE <<"ka">>)
         \o Render(Tail(w))

RunOf(c, n) == [k \in 1..n |-> c]
Runs == {Render(RunOf(c, n)) : c \in {"L", "G"}, n \in 0..MaxRun}

\* quarters a verse is composed of: the fixed patterns of the catalog, an
\* all-light quarter of 11 and a quarter of 8
Light11 == RunOf("L", 11)
Quarter8 == <<"L","G","G","G","L","G","G","G">>
QuarterShapes ==
    {Indravajra, Upendravajra, Vasantatilaka, Malini, Shardula, Light11, Quarter8}

RECURSIVE Flatten(_)
Flatten(qs) == IF qs = <<>> THEN <<>> ELSE Head(qs) \o Flatten(Tail(qs))

\* verses of n quarters of shape q, but for quarter p, which has shape r
Verses ==
    {Render(Flatten([k \in 1..n |-> IF k = p THEN r ELSE q])) :
        q \in QuarterShapes, r \in QuarterShapes,
        p \in 1..MaxQuarters, n \in 1..MaxQuarters}

Inputs == ShortTexts \cup Runs \cup Verses

\* the texts a sequence of calls draws from
CallInputs ==
    {<<>>, <<"ka">>, <<"latin_a">>,
     Render(RunOf("L", 8)), Render(RunOf("L", 32)),
     Render(Indravajra \o Indravajra \o Indravajra \o Indravajra),
     Render(Light11 \o Indravajra \o Light11 \o Light11)}

\* ------------------------------------------------------------------------
\* One call of detect_chandas(text), step by step
\* ------------------------------------------------------------------------
VARIABLES
    CHANDAS_PATTERNS,    \* the module-level catalog
    text,                \* the argument of the call
    pc,                  \* where the call is
    norm,                \* split_into_syllables: text after re.sub
    i,                   \* split_into_syllables: the read index
    syllables,           \* the list of syllables
    syllable_breakdown,
    pattern_str,
    scanned,             \* catalog entries the for loop has examined
    best_match,
    best_confidence,
    explanation,
    result,              \* the returned dict, None before the return
    log,                 \* the calls that returned: argument and result
    sp_pc,               \* where a call of split_syllables(text) is
    sp_norm,             \* split_syllables: text after re.sub
    sp_i,                \* split_syllables: the read index
    sp_syllables,        \* split_syllables: the list of syllables
    cpc,                 \* where a call of identify_chandas is
    shloka,              \* request.shloka
    llm,                 \* what chat_completion did for this request
    c_result,            \* identify_chandas: the local result
    detector_calls,      \* the calls of detect_chandas the controller made
    response,            \* the ChandasIdentifyResponse, None before it
    chanda_instance,     \* ChandasService._chanda_instance
    constructions,       \* the times Chanda(data_path) was attempted
    caller,              \* the entry point of the request
    spc,                 \* where the request is
    verse,               \* request.verse, the argument of identify_metre
    chanda,              \* identify_metre: what _get_chanda_instance returned
    strategy_calls,      \* the libraries identify_metre has called
    metre_info,          \* what identify_metre returned
    llm_analysis,        \* analyze_shloka: the local llm_analysis
    http,                \* what analyze_shloka answered
    served,              \* the requests that went before this one
    fpc,                 \* which classifier call is under way
    w_syllable,          \* the syllable handed to the classifiers
    w_is_line_end,       \* the flag handed to classify_syllable
    w_classification,    \* what classify_syllable returned, None before
    w_guru,              \* what is_guru returned, None before
    m_pattern,           \* the argument of identify_meter_from_pattern
    m_meter              \* what it returned, None before

detectorVars ==
    <<CHANDAS_PATTERNS, text, pc, norm, i, syllables, syllable_breakdown,
      pattern_str, scanned, best_match, best_confidence, explanation,
      result, log>>

splitterVars == <<sp_pc, sp_norm, sp_i, sp_syllables>>

controllerVars == <<cpc, shloka, llm, c_result, detector_calls, response>>

serviceVars ==
    <<chanda_instance, constructions, caller, spc, verse, chanda,
      strategy_calls, metre_info, llm_analysis, http, served>>

classifierVars ==
    <<fpc, w_syllable, w_is_line_end, w_classification, w_guru, m_pattern,
      m_meter>>

\* what a step of detect_chandas leaves alone
others == <<splitterVars, controllerVars, serviceVars, classifierVars>>

vars ==
    <<detectorVars, splitterVars, controllerVars, serviceVars,
      classifierVars>>

\* no call of split_syllables is under way
IdleSplitter ==
    /\ sp_pc = "idle"
    /\ sp_norm = <<>>
    /\ sp_i = 0
    /\ sp_syllables = <<>>

\* no request is with the controller
IdleController ==
    /\ cpc = "idle"
    /\ shloka = <<>>
    /\ llm = [kind |-> "pending"]
    /\ c_result = Null
    /\ detector_calls = <<>>
    /\ response = Null

\* no classifier is called
IdleClassifiers ==
    /\ fpc = "idle"
    /\ w_syllable = <<>>
    /\ w_is_line_end = FALSE
    /\ w_classification = [null |-> TRUE]
    /\ w_guru = [null |-> TRUE]
    /\ m_pattern = <<>>
    /\ m_meter = [null |-> TRUE]

\* no request is with the service
IdleService ==
    /\ chanda_instance = None
    /\ constructions = 0
    /\ caller = None
    /\ spc = "idle"
    /\ verse = <<>>
    /\ chanda = [null |-> TRUE]
    /\ strategy_calls = <<>>
    /\ metre_info = [null |-> TRUE]
    /\ llm_analysis = [null |-> TRUE]
    /\ http = [null |-> TRUE]
    /\ served = 0

total_syllables == Len(syllables)

Init ==
    /\ CHANDAS_PATTERNS = InitialCatalog
    /\ text \in Inputs
    /\ pc = "call"
    /\ norm = <<>>
    /\ i = 0
    /\ syllables = <<>>
    /\ syllable_breakdown = <<>>
    /\ pattern_str = <<>>
    /\ scanned = 0
    /\ best_match = None
    /\ best_confidence = 0
    /\ explanation = None
    /\ result = None
    /\ log = <<>>
    /\ IdleSplitter
    /\ IdleController
    /\ IdleService
    /\ IdleClassifiers

\* split_into_syllables, lines 52-55
StripText ==
    /\ pc = "call"
    /\ norm' = Normalize(text)
    /\ i' = 0
    /\ syllables' = <<>>
    /\ pc' = "scan"
    /\ UNCHANGED <<CHANDAS_PATTERNS, text, syllable_breakdown, pattern_str,
                   scanned, best_match, best_confidence, explanation, result, log>>
    /\ UNCHANGED others

\* split_into_syllables, one iteration of the outer while (lines 57-75)
ScanStep ==
    /\ pc = "scan"
    /\ i < Len(norm)
    /\ LET one == ScanOne(norm, i)
       IN  /\ i' = one.i
           /\ syllables' = IF ~one.raised /\ one.syllable # <<>>
                           THEN Append(syllables, one.syllable)
                           ELSE syllables
           /\ pc' = IF one.raised THEN "raised" ELSE "scan"
    /\ UNCHANGED <<CHANDAS_PATTERNS, text, norm, syllable_breakdown,
                   pattern_str, scanned, best_match, best_confidence,
                   explanation, result, log>>
    /\ UNCHANGED others

\* the while ends, split_into_syllables returns; detect_chandas lines 121-137
Classify ==
    /\ pc = "scan"
    /\ ~(i < Len(norm))
    /\ syllable_breakdown' = BreakdownOf(syllables)
    /\ pattern_str' = PatternOf(syllables)
    /\ best_match' = None
    /\ best_confidence' = 0
    /\ scanned' = 0
    /\ pc' = IF Len(CHANDAS_PATTERNS) = 0 THEN "select" ELSE "match"
    /\ UNCHANGED <<CHANDAS_PATTERNS, text, norm, i, syllables, explanation,
                   result, log>>
    /\ UNCHANGED others

\* one pass of "for chandas_name, info in CHANDAS_PATTERNS.items()" (139-151)
MatchStep ==
    /\ pc = "match"
    /\ scanned < Len(CHANDAS_PATTERNS)
    /\ LET info == CHANDAS_PATTERNS[scanned + 1]
           verdict == Examine(info, total_syllables, pattern_str)
       IN  /\ CHANDAS_PATTERNS' = CatalogAfterPass(CHANDAS_PATTERNS, scanned + 1)
           /\ scanned' = scanned + 1
           /\ best_match' = IF verdict = "next" THEN best_match ELSE info.name
           /\ best_confidence' = ConfidenceOf(verdict, best_confidence)
           /\ pc' = IF verdict # "next" \/ scanned + 1 = Len(CHANDAS_PATTERNS)
                    THEN "select" ELSE "match"
    /\ UNCHANGED <<text, norm, i, syllables,
                   syllable_breakdown, pattern_str, explanation, result, log>>
    /\ UNCHANGED others

\* if best_match is None: the fallback ladder (lines 154-176)
Fallback ==
    /\ pc = "select"
    /\ best_match = None
    /\ LET rung == Ladder(total_syllables)
       IN  /\ best_match' = rung.best_match
           /\ best_confidence' = rung.best_confidence
           /\ explanation' = rung.explanation
    /\ pc' = "return"
    /\ UNCHANGED <<CHANDAS_PATTERNS, text, norm, i, syllables,
                   syllable_breakdown, pattern_str, scanned, result, log>>
    /\ UNCHANGED others

\* else: the description of the matched entry (lines 177-181)
Describe ==
    /\ pc = "select"
    /\ best_match # None
    /\ explanation' = DescriptionOf(CHANDAS_PATTERNS, best_match, total_syllables)
    /\ pc' = "return"
    /\ UNCHANGED <<CHANDAS_PATTERNS, text, norm, i, syllables,
                   syllable_breakdown, pattern_str, scanned, best_match,
                   best_confidence, result, log>>
    /\ UNCHANGED others

\* return {...} (lines 183-189); reading an unassigned explanation raises
Return ==
    /\ pc = "return"
    /\ result' = IF explanation = None THEN None
                 ELSE [chandas_name |-> best_match,
                       syllable_breakdown |-> syllable_breakdown,
                       laghu_guru_pattern |-> pattern_str,
                       explanation |-> explanation,
                       confidence |-> best_confidence]
    /\ log' = IF explanation = None THEN log
              ELSE Append(log, [text |-> text, result |-> result'])
    /\ pc' = IF explanation = None THEN "raised" ELSE "done"
    /\ UNCHANGED <<CHANDAS_PATTERNS, text, norm, i, syllables,
                   syllable_breakdown, pattern_str, scanned, best_match,
                   best_confidence, explanation>>
    /\ UNCHANGED others

\* the next call of a sequence of calls: a new argument and a new frame, in
\* which every local is unassigned
NextCall ==
    /\ pc = "done"
    /\ Len(log) < MaxCalls
    /\ text' \in CallInputs
    /\ pc' = "call"
    /\ norm' = <<>>
    /\ i' = 0
    /\ syllables' = <<>>
    /\ syllable_breakdown' = <<>>
    /\ pattern_str' = <<>>
    /\ scanned' = 0
    /\ best_match' = None
    /\ best_confidence' = 0
    /\ explanation' = None
    /\ result' = None
    /\ UNCHANGED <<CHANDAS_PATTERNS, log>>
    /\ UNCHANGED others

Next ==
    \/ StripText
    \/ ScanStep
    \/ Classify
    \/ MatchStep
    \/ Fallback
    \/ Describe
    \/ Return

Spec == Init /\ [][Next]_vars

\* a sequence of calls, one after the other
InitCalls ==
    /\ Init
    /\ text \in CallInputs

NextCalls ==
    \/ Next
    \/ NextCall

SpecCalls == InitCalls /\ [][NextCalls]_vars

\* ------------------------------------------------------------------------
\* One call of SanskritSplitter.split_syllables(text), step by step
\* ------------------------------------------------------------------------
\* text = re.sub(...), syllables = [], i = 0 (lines 44-47)
SplitterStrip ==
    /\ sp_pc = "call"
    /\ sp_norm' = SplitterNormalize(text)
    /\ sp_i' = 0
    /\ sp_syllables' = <<>>
    /\ sp_pc' = "scan"
    /\ UNCHANGED <<detectorVars, controllerVars, serviceVars, classifierVars>>

\* one iteration of the while (lines 49-82)
SplitterStep ==
    /\ sp_pc = "scan"
    /\ sp_i < Len(sp_norm)
    /\ LET one == SplitterOne(sp_norm, sp_i)
       IN  /\ sp_i' = one.i
           /\ sp_syllables' = IF one.syllable # <<>>
                              THEN Append(sp_syllables, one.syllable)
                              ELSE sp_syllables
    /\ UNCHANGED <<sp_pc, sp_norm>>
    /\ UNCHANGED <<detectorVars, controllerVars, serviceVars, classifierVars>>

\* the while ends: return syllables (line 84)
SplitterReturn ==
    /\ sp_pc = "scan"
    /\ ~(sp_i < Len(sp_norm))
    /\ sp_pc' = "done"
    /\ UNCHANGED <<sp_norm, sp_i, sp_syllables>>
    /\ UNCHANGED <<detectorVars, controllerVars, serviceVars, classifierVars>>

\* conjuncts with a vowel sign after them
ConjunctTexts ==
    {<<"ka", "virama", "ka", "sign_i">>,
     <<"ka", "virama", "ka", "sign_aa", "anusvara">>,
     <<"ka", "virama", "ka", "virama", "ka", "sign_i">>}

\* the texts both segmenters are run on
SegTexts == ShortTexts \cup ConjunctTexts \cup {Render(RunOf("L", 32))}

\* one of the two segmenters is called on a text
InitSegment ==
    /\ CHANDAS_PATTERNS = InitialCatalog
    /\ text \in SegTexts
    /\ \/ pc = "call" /\ sp_pc = "idle"
       \/ pc = "idle" /\ sp_pc = "call"
    /\ norm = <<>>
    /\ i = 0
    /\ syllables = <<>>
    /\ syllable_breakdown = <<>>
    /\ pattern_str = <<>>
    /\ scanned = 0
    /\ best_match = None
    /\ best_confidence = 0
    /\ explanation = None
    /\ result = None
    /\ log = <<>>
    /\ sp_norm = <<>>
    /\ sp_i = 0
    /\ sp_syllables = <<>>
    /\ IdleController
    /\ IdleService
    /\ IdleClassifiers

NextSegment ==
    \/ Next
    \/ SplitterStrip
    \/ SplitterStep
    \/ SplitterReturn

\* a call that can take a step takes it
SpecSegment ==
    InitSegment /\ [][NextSegment]_vars /\ WF_vars(NextSegment)

\* ------------------------------------------------------------------------
\* One request to ChandasController.identify_chandas, step by step
\* ------------------------------------------------------------------------
\* the shlokas of the requests
Shlokas ==
    {<<"ka">>, <<"ka", "space", "ka", "danda">>,
     Render(RunOf("L", 8)), Render(RunOf("L", 32)), Render(RunOf("G", 32)),
     Render(RunOf("L", 44)), Render(FourTimes(Indravajra)),
     Render(RunOf("L", 56))}

\* syllable items of a response: one SyllableInfo accepts, one it refuses
Item == [syllable |-> <<"ka">>, type |-> "laghu", position |-> 1]
BadItem == [syllable |-> <<"ka">>]

\* a response with every field in its place
Usable ==
    [chandas_name |-> Str("Anushtup"),
     syllable_breakdown |-> <<Item>>,
     laghu_guru_pattern |-> <<"L">>,
     explanation |-> Str("e"),
     confidence |-> Num(90)]

\* the JSON objects the language model answers with
JsonObjects ==
    {Usable,
     [Usable EXCEPT !.confidence = Num(150)],
     [Usable EXCEPT !.confidence = Str("high")],
     [Usable EXCEPT !.confidence = Null],
     [Usable EXCEPT !.syllable_breakdown = <<>>],
     [Usable EXCEPT !.syllable_breakdown = <<>>, !.confidence = Str("high")],
     [Usable EXCEPT !.syllable_breakdown = <<BadItem>>],
     [Usable EXCEPT !.syllable_breakdown = <<Item, BadItem>>],
     [Usable EXCEPT !.syllable_breakdown = <<Item, Item, Item, Item, Item, Item>>],
     [chandas_name |-> Str("Anushtup")],
     [chandas_name |-> Str("Anushtup"), confidence |-> Num(90)],
     [syllable_breakdown |-> <<Item>>]}

\* the text of a JSON answer, and the texts that are no JSON
JsonText == <<"lbrace", "latin_a", "rbrace">>
PlainTexts ==
    {<<>>, <<"latin_a">>, <<"space", "latin_a", "nl", "latin_a">>}

\* what chat_completion does: it raises, or returns None, a text that is no
\* JSON, a JSON value that is no object, or a JSON object
LLMOutcomes ==
    {[kind |-> "raised"], [kind |-> "none"]}
    \cup {[kind |-> "text", text |-> t] : t \in PlainTexts}
    \cup {[kind |-> "notobject", text |-> JsonText]}
    \cup {[kind |-> "json", text |-> JsonText, data |-> d] : d \in JsonObjects}

\* detect_chandas(arg) is called: a new frame
CallDetector(arg) ==
    /\ text' = arg
    /\ pc' = "call"
    /\ norm' = <<>>
    /\ i' = 0
    /\ syllables' = <<>>
    /\ syllable_breakdown' = <<>>
    /\ pattern_str' = <<>>
    /\ scanned' = 0
    /\ best_match' = None
    /\ best_confidence' = 0
    /\ explanation' = None
    /\ result' = None
    /\ UNCHANGED <<CHANDAS_PATTERNS, log>>

\* response_text = await self.llm_client.chat_completion(...) (lines 50-68)
ChatCompletion ==
    /\ cpc = "request"
    /\ \E o \in LLMOutcomes :
          /\ llm' = o
          /\ cpc' = IF o.kind = "raised" THEN "except" ELSE "parse"
    /\ UNCHANGED <<shloka, c_result, detector_calls, response>>
    /\ UNCHANGED <<detectorVars, splitterVars, serviceVars, classifierVars>>

\* result = self._parse_llm_response(response_text) up to the fallback test
\* (lines 71, 220-254), and its except branch (lines 260-277)
ParseResponse ==
    /\ cpc = "parse"
    /\ IF ParseRaises(llm)
       THEN /\ c_result' = PlainText(llm)
            /\ cpc' = "trace"
            /\ UNCHANGED <<detector_calls, detectorVars>>
       ELSE LET data == WithDefaults(llm.data)
            IN  /\ c_result' = data
                /\ IF NeedsFallback(data)
                   THEN /\ detector_calls' = Append(detector_calls,
                                 [line |-> 256, text |-> llm.text])
                        /\ CallDetector(llm.text)
                        /\ cpc' = "fallback"
                   ELSE /\ cpc' = "trace"
                        /\ UNCHANGED <<detector_calls, detectorVars>>
    /\ UNCHANGED <<shloka, llm, response>>
    /\ UNCHANGED <<splitterVars, serviceVars, classifierVars>>

\* fallback_result = detect_chandas(response_text) has returned (256-260)
ParseFallback ==
    /\ cpc = "fallback"
    /\ pc = "done"
    /\ c_result' = WithFallback(c_result, result)
    /\ cpc' = "trace"
    /\ UNCHANGED <<shloka, llm, detector_calls, response>>
    /\ UNCHANGED <<detectorVars, splitterVars, serviceVars, classifierVars>>

\* except Exception as llm_error: result = detect_chandas(request.shloka)
\* is called (lines 75-79)
ExceptFallback ==
    /\ cpc = "except"
    /\ detector_calls' = Append(detector_calls, [line |-> 79, text |-> shloka])
    /\ CallDetector(shloka)
    /\ cpc' = "detect"
    /\ UNCHANGED <<shloka, llm, c_result, response>>
    /\ UNCHANGED <<splitterVars, serviceVars, classifierVars>>

\* the call of line 79 has returned
ExceptFallbackReturn ==
    /\ cpc = "detect"
    /\ pc = "done"
    /\ c_result' = FromDetector(result)
    /\ cpc' = "trace"
    /\ UNCHANGED <<shloka, llm, detector_calls, response>>
    /\ UNCHANGED <<detectorVars, splitterVars, serviceVars, classifierVars>>

\* result['identification_process'] = ... (line 83); an exception of the
\* tracer leaves identify_chandas through the outer except (lines 87-89)
Trace ==
    /\ cpc = "trace"
    /\ LET process == generate_identification_process(shloka, c_result)
       IN  IF process.raised
           THEN /\ cpc' = "raised"
                /\ UNCHANGED c_result
           ELSE /\ cpc' = "respond"
                /\ c_result' = [k \in DOMAIN c_result
                                       \cup {"identification_process"} |->
                                   IF k = "identification_process"
                                   THEN process.steps ELSE c_result[k]]
    /\ UNCHANGED <<shloka, llm, detector_calls, response>>
    /\ UNCHANGED <<detectorVars, splitterVars, serviceVars, classifierVars>>

\* return ChandasIdentifyResponse(**result) (line 85)
Respond ==
    /\ cpc = "respond"
    /\ IF IsValidResponse(c_result)
       THEN /\ response' = c_result
            /\ cpc' = "responded"
       ELSE /\ cpc' = "raised"
            /\ UNCHANGED response
    /\ UNCHANGED <<shloka, llm, c_result, detector_calls>>
    /\ UNCHANGED <<detectorVars, splitterVars, serviceVars, classifierVars>>

InitController ==
    /\ CHANDAS_PATTERNS = InitialCatalog
    /\ text = <<>>
    /\ pc = "idle"
    /\ norm = <<>>
    /\ i = 0
    /\ syllables = <<>>
    /\ syllable_breakdown = <<>>
    /\ pattern_str = <<>>
    /\ scanned = 0
    /\ best_match = None
    /\ best_confidence = 0
    /\ explanation = None
    /\ result = None
    /\ log = <<>>
    /\ IdleSplitter
    /\ cpc = "request"
    /\ shloka \in Shlokas
    /\ llm = [kind |-> "pending"]
    /\ c_result = Null
    /\ detector_calls = <<>>
    /\ response = Null
    /\ IdleService
    /\ IdleClassifiers

NextController ==
    \/ ChatCompletion
    \/ ParseResponse
    \/ ParseFallback
    \/ ExceptFallback
    \/ ExceptFallbackReturn
    \/ Trace
    \/ Respond
    \/ Next

SpecController == InitController /\ [][NextController]_vars

\* ------------------------------------------------------------------------
\* ChandasService.identify_metre and the route analyze_shloka, step by step
\* ------------------------------------------------------------------------
\* the verses of the requests
VerseTexts ==
    {<<>>, <<"space">>, <<"ka">>, <<"space", "ka", "nl", "ka">>}

\* the record of lines 54-62 and 127-135
UnknownMetre ==
    [metre |-> "Unknown", scheme |-> "", laghu_guru_pattern |-> "",
     confidence |-> 0, syllable_count |-> <<>>, gana_pattern |-> "",
     detected |-> FALSE]

\* what chanda.identify_line(first_line) does: it raises, or returns
\* nothing, or a result
IdentifyLineOutcomes ==
    {[kind |-> "raised"], [kind |-> "none"],
     [kind |-> "result", found |-> FALSE, chanda |-> <<>>, lg_str |-> ""],
     [kind |-> "result", found |-> TRUE, chanda |-> <<>>, lg_str |-> "LG"],
     [kind |-> "result", found |-> TRUE, chanda |-> <<"Anushtup">>,
      lg_str |-> "LG"]}

\* if result and result.get('found') ... if chanda_list (lines 79-81)
IsChandaHit(o) ==
    /\ o.kind = "result"
    /\ o.found
    /\ o.chanda # <<>>

\* lines 82-93
ChandaMetre(o) ==
    [metre |-> o.chanda[1], scheme |-> "", laghu_guru_pattern |-> o.lg_str,
     confidence |-> 85, syllable_count |-> <<>>, gana_pattern |-> "",
     detected |-> TRUE]

\* the mutant of AfterIdentifyLine: line 95 does not return
AfterIdentifyLineFallsThrough(o) == "stuti"

\* what the stuti-chandas step does: the import fails, identify_metre
\* raises, or returns nothing, an empty dict, or a dict
StutiOutcomes ==
    {[kind |-> "ImportError"], [kind |-> "raised"], [kind |-> "none"],
     [kind |-> "result", dict |-> [key \in {} |-> ""]],
     [kind |-> "result", dict |-> [name |-> "Anushtup", confidence |-> 80]],
     [kind |-> "result", dict |-> [pattern |-> "LG"]]}

\* if result (line 107)
IsStutiHit(o) ==
    /\ o.kind = "result"
    /\ DOMAIN o.dict # {}

\* the mutant of ShouldConstruct: a failed construction is tried again
ShouldConstructUnlessBuilt(instance) == instance # "Chanda"

\* result.get(key, default)
Get(dict, key, default) == IF key \in DOMAIN dict THEN dict[key] ELSE default

\* "detected": True (line 115)
StutiDetected(dict) == TRUE

\* lines 108-116
StutiMetre(dict) ==
    [metre |-> Get(dict, "name", "Unknown"),
     scheme |-> Get(dict, "pattern", ""),
     laghu_guru_pattern |-> Get(dict, "laghu_guru", ""),
     confidence |-> Get(dict, "confidence", 0),
     syllable_count |-> Get(dict, "syllable_count", <<>>),
     gana_pattern |-> Get(dict, "gana", ""),
     detected |-> StutiDetected(dict)]

\* where a request goes on when identify_metre has returned
AfterIdentify == IF caller = "analyze_shloka" THEN "llm" ELSE "done"

\* analyze_shloka: if not request.verse or not request.verse.strip()
\* (chandas_routes.py lines 71-72)
Validate ==
    /\ spc = "validate"
    /\ IF Strip(verse) = <<>>
       THEN /\ http' = [status |-> 422]
            /\ spc' = "done"
       ELSE /\ spc' = "identify"
            /\ UNCHANGED http
    /\ UNCHANGED <<chanda_instance, constructions, caller, verse, chanda,
                   strategy_calls, metre_info, llm_analysis, served>>
    /\ UNCHANGED <<detectorVars, splitterVars, controllerVars,
                   classifierVars>>

\* identify_metre: cleaned_verse and the empty verse (lines 53-64)
CleanVerse ==
    /\ spc = "identify"
    /\ IF Strip(verse) = <<>>
       THEN /\ metre_info' = UnknownMetre
            /\ spc' = AfterIdentify
       ELSE /\ spc' = "chanda"
            /\ UNCHANGED metre_info
    /\ UNCHANGED <<chanda_instance, constructions, caller, verse, chanda,
                   strategy_calls, llm_analysis, http, served>>
    /\ UNCHANGED <<detectorVars, splitterVars, controllerVars,
                   classifierVars>>

\* if cls._chanda_instance is None (line 20)
ShouldConstruct(instance) == instance = None

\* return cls._chanda_instance if cls._chanda_instance is not False else
\* None (line 35)
Returned(instance) == IF instance # "False" THEN instance ELSE None

\* chanda = ChandasService._get_chanda_instance() (lines 16-35, 68-75)
GetChandaInstance ==
    /\ spc = "chanda"
    /\ IF ShouldConstruct(chanda_instance)
       THEN /\ \E constructed \in BOOLEAN :
                  chanda_instance' = IF constructed THEN "Chanda" ELSE "False"
            /\ constructions' = constructions + 1
       ELSE UNCHANGED <<chanda_instance, constructions>>
    /\ chanda' = [returned |-> Returned(chanda_instance')]
    /\ spc' = IF chanda'.returned # None
                  /\ Strip(FirstLine(Strip(verse))) # <<>>
              THEN "identify_line" ELSE "stuti"
    /\ UNCHANGED <<caller, verse, strategy_calls, metre_info, llm_analysis,
                   http, served>>
    /\ UNCHANGED <<detectorVars, splitterVars, controllerVars,
                   classifierVars>>

\* where identify_metre goes on from identify_line: return metre_info
\* (line 95), or on to stuti-chandas after a result that is no hit or an
\* exception caught at line 96 (lines 79-101)
AfterIdentifyLine(o) == IF IsChandaHit(o) THEN AfterIdentify ELSE "stuti"

\* result = chanda.identify_line(first_line) (lines 77-99)
IdentifyLine ==
    /\ spc = "identify_line"
    /\ \E o \in IdentifyLineOutcomes :
          /\ strategy_calls' =
                 Append(strategy_calls,
                        [library |-> "Chandojnanam", outcome |-> o])
          /\ metre_info' = IF IsChandaHit(o) THEN ChandaMetre(o)
                           ELSE metre_info
          /\ spc' = AfterIdentifyLine(o)
    /\ UNCHANGED <<chanda_instance, constructions, caller, verse, chanda,
                   llm_analysis, http, served>>
    /\ UNCHANGED <<detectorVars, splitterVars, controllerVars,
                   classifierVars>>

\* the stuti-chandas fallback (lines 101-123)
Stuti ==
    /\ spc = "stuti"
    /\ \E o \in StutiOutcomes :
          /\ strategy_calls' =
                 IF o.kind = "ImportError" THEN strategy_calls
                 ELSE Append(strategy_calls,
                             [library |-> "stuti", outcome |-> o])
          /\ IF IsStutiHit(o)
             THEN /\ metre_info' = StutiMetre(o.dict)
                  /\ spc' = AfterIdentify
             ELSE /\ spc' = "unknown"
                  /\ UNCHANGED metre_info
    /\ UNCHANGED <<chanda_instance, constructions, caller, verse, chanda,
                   llm_analysis, http, served>>
    /\ UNCHANGED <<detectorVars, splitterVars, controllerVars,
                   classifierVars>>

\* Return Unknown with low confidence (lines 125-135)
ReturnUnknown ==
    /\ spc = "unknown"
    /\ metre_info' = UnknownMetre
    /\ spc' = AfterIdentify
    /\ UNCHANGED <<chanda_instance, constructions, caller, verse, chanda,
                   strategy_calls, llm_analysis, http, served>>
    /\ UNCHANGED <<detectorVars, splitterVars, controllerVars,
                   classifierVars>>

\* what the optional analysis step leaves in llm_analysis: LLMService()
\* raises without an API key, the completion has no content, or
\* analyze_with_metre returns a string, the analysis or its own failure text
\* (chandas_routes.py lines 78-84, llm_service.py lines 15-74)
AnalysisOutcomes ==
    {[kind |-> "unconstructible", value |-> Null],
     [kind |-> "nocontent", value |-> Null],
     [kind |-> "analysis", value |-> Str("analysis")],
     [kind |-> "failed", value |-> Str("LLM analysis unavailable")]}

LLMAnalysis ==
    /\ spc = "llm"
    /\ \E o \in AnalysisOutcomes : llm_analysis' = o
    /\ spc' = "build"
    /\ UNCHANGED <<chanda_instance, constructions, caller, verse, chanda,
                   strategy_calls, metre_info, http, served>>
    /\ UNCHANGED <<detectorVars, splitterVars, controllerVars,
                   classifierVars>>

\* ShlokaAnalyzeResponse validates llm_output: Optional[Dict[str, Any]]
\* and confidence: ge 0, le 1 (models.py lines 109-118)
IsValidAnalyzeResponse(info, analysis) ==
    /\ analysis = Null
    /\ info.confidence >= 0
    /\ info.confidence <= 100

\* the response is built, or the generic except answers 500
\* (chandas_routes.py lines 86-108)
BuildResponse ==
    /\ spc = "build"
    /\ http' = IF IsValidAnalyzeResponse(metre_info, llm_analysis.value)
               THEN [status |-> 200, metre |-> metre_info.metre,
                     confidence |-> metre_info.confidence,
                     detected |-> metre_info.detected]
               ELSE [status |-> 500]
    /\ spc' = "done"
    /\ UNCHANGED <<chanda_instance, constructions, caller, verse, chanda,
                   strategy_calls, metre_info, llm_analysis, served>>
    /\ UNCHANGED <<detectorVars, splitterVars, controllerVars,
                   classifierVars>>

\* the next request of the process: _chanda_instance stays
NextRequest ==
    /\ spc = "done"
    /\ served < MaxRequests - 1
    /\ served' = served + 1
    /\ caller' \in {"analyze_shloka", "identify_metre"}
    /\ spc' = IF caller' = "analyze_shloka" THEN "validate" ELSE "identify"
    /\ verse' \in VerseTexts
    /\ chanda' = Null
    /\ strategy_calls' = <<>>
    /\ metre_info' = Null
    /\ llm_analysis' = Null
    /\ http' = Null
    /\ UNCHANGED <<chanda_instance, constructions>>
    /\ UNCHANGED <<detectorVars, splitterVars, controllerVars,
                   classifierVars>>

InitService ==
    /\ CHANDAS_PATTERNS = InitialCatalog
    /\ text = <<>>
    /\ pc = "idle"
    /\ norm = <<>>
    /\ i = 0
    /\ syllables = <<>>
    /\ syllable_breakdown = <<>>
    /\ pattern_str = <<>>
    /\ scanned = 0
    /\ best_match = None
    /\ best_confidence = 0
    /\ explanation = None
    /\ result = None
    /\ log = <<>>
    /\ IdleSplitter
    /\ IdleController
    /\ chanda_instance = None
    /\ constructions = 0
    /\ caller \in {"analyze_shloka", "identify_metre"}
    /\ spc = IF caller = "analyze_shloka" THEN "validate" ELSE "identify"
    /\ verse \in VerseTexts
    /\ chanda = Null
    /\ strategy_calls = <<>>
    /\ metre_info = Null
    /\ llm_analysis = Null
    /\ http = Null
    /\ served = 0
    /\ IdleClassifiers

NextService ==
    \/ Validate
    \/ CleanVerse
    \/ GetChandaInstance
    \/ IdentifyLine
    \/ Stuti
    \/ ReturnUnknown
    \/ LLMAnalysis
    \/ BuildResponse
    \/ NextRequest

SpecService == InitService /\ [][NextService]_vars

\* ------------------------------------------------------------------------
\* The classifiers called on their own: classify_syllable, is_guru and
\* identify_meter_from_pattern
\* ------------------------------------------------------------------------
\* the characters of the syllables: a consonant, short and long independent
\* vowels, short and long vowel signs, the marks and a Latin letter
WeighChars ==
    {"ka", "a", "i", "ri", "aa", "e", "o", "rri", "sign_aa", "sign_i",
     "sign_u", "sign_ri", "sign_e", "sign_o", "virama", "anusvara",
     "visarga", "latin_a"}

RECURSIVE SyllablesOfLen(_)
SyllablesOfLen(n) ==
    IF n = 0 THEN {<<>>}
    ELSE {Append(w, c) : w \in SyllablesOfLen(n - 1), c \in WeighChars}

Syllables == UNION {SyllablesOfLen(n) : n \in 1..MaxSyllable}

\* the patterns handed to identify_meter_from_pattern: the fixed meters of
\* the table four times over, the same with one symbol turned over, verses
\* of 32, and patterns of other lengths
MeterPatterns ==
    {FourTimes(q) : q \in {Indravajra, Upendravajra, Vasantatilaka, Malini}}
    \cup UNION {{[FourTimes(q) EXCEPT ![k] = IF @ = "L" THEN "G" ELSE "L"] :
                      k \in 1..(4 * Len(q))} :
                   q \in {Indravajra, Upendravajra, Vasantatilaka, Malini}}
    \cup {FourTimes(Quarter8), RunOf("L", 32), RunOf("G", 32),
          RunOf("L", 44), RunOf("G", 60), RunOf("L", 8), <<>>}

\* classify_syllable(syllable, is_line_end) is called and returns
ClassifySyllable ==
    /\ fpc = "syllable"
    /\ w_classification = Null
    /\ w_classification' = Str(classify_syllable(w_syllable, w_is_line_end))
    /\ UNCHANGED <<fpc, w_syllable, w_is_line_end, w_guru, m_pattern, m_meter>>
    /\ UNCHANGED <<detectorVars, splitterVars, controllerVars, serviceVars>>

\* SanskritSplitter.is_guru(syllable) is called and returns
IsGuru ==
    /\ fpc = "syllable"
    /\ w_guru = Null
    /\ w_guru' = [bool |-> is_guru(w_syllable)]
    /\ UNCHANGED <<fpc, w_syllable, w_is_line_end, w_classification,
                   m_pattern, m_meter>>
    /\ UNCHANGED <<detectorVars, splitterVars, controllerVars, serviceVars>>

\* SanskritSplitter.identify_meter_from_pattern(pattern) is called and
\* returns
IdentifyMeter ==
    /\ fpc = "pattern"
    /\ m_meter = Null
    /\ m_meter' = identify_meter_from_pattern(m_pattern)
    /\ UNCHANGED <<fpc, w_syllable, w_is_line_end, w_classification, w_guru,
                   m_pattern>>
    /\ UNCHANGED <<detectorVars, splitterVars, controllerVars, serviceVars>>

\* no call of detect_chandas is under way
IdleDetector ==
    /\ CHANDAS_PATTERNS = InitialCatalog
    /\ text = <<>>
    /\ pc = "idle"
    /\ norm = <<>>
    /\ i = 0
    /\ syllables = <<>>
    /\ syllable_breakdown = <<>>
    /\ pattern_str = <<>>
    /\ scanned = 0
    /\ best_match = None
    /\ best_confidence = 0
    /\ explanation = None
    /\ result = None
    /\ log = <<>>

InitClassifiers ==
    /\ IdleDetector
    /\ IdleSplitter
    /\ IdleController
    /\ IdleService
    /\ w_classification = Null
    /\ w_guru = Null
    /\ m_meter = Null
    /\ \/ /\ fpc = "syllable"
          /\ w_syllable \in Syllables
          /\ w_is_line_end \in BOOLEAN
          /\ m_pattern = <<>>
       \/ /\ fpc = "pattern"
          /\ m_pattern \in MeterPatterns
          /\ w_syllable = <<>>
          /\ w_is_line_end = FALSE

NextClassifiers ==
    \/ ClassifySyllable
    \/ IsGuru
    \/ IdentifyMeter

SpecClassifiers == InitClassifiers /\ [][NextClassifiers]_vars

\* ------------------------------------------------------------------------
\* Properties
\* ------------------------------------------------------------------------
returned == pc = "done"


\* C1: detect_chandas("") returns chandas_name "Unknown", confidence 0.30,
\* an empty syllable_breakdown and an empty laghu_guru_pattern.
C1_EmptyTextIsUnknown ==
    (returned /\ text = <<>>) =>
        /\ result.chandas_name = "Unknown"
        /\ result.confidence = 30
        /\ result.syllable_breakdown = <<>>
        /\ result.laghu_guru_pattern = <<>>

\* C2: for every input detect_chandas reaches no error state, and the
\* record it returns has chandas_name, syllable_breakdown,
\* laghu_guru_pattern, explanation and confidence all set.
C2_Totality ==
    /\ pc # "raised"
    /\ returned =>
        /\ DOMAIN result = {"chandas_name", "syllable_breakdown",
                            "laghu_guru_pattern", "explanation", "confidence"}
        /\ result.chandas_name # None
        /\ result.explanation # None
        /\ result.confidence \in 0..100
        /\ DOMAIN result.syllable_breakdown = 1..Len(syllables)
        /\ DOMAIN result.laghu_guru_pattern = 1..Len(syllables)

\* a call returned for a text that ends in a virama, where line 70 is
\* reached with the index at the end of the text
C2_Witness ==
    returned /\ text = <<"latin_a", "ka", "virama">>

\* C3: in every result the pattern, the breakdown and the segmenter's list
\* of syllables have the same length, the i-th pattern symbol is the weight
\* of the i-th breakdown entry, and the positions are 1, 2, ..., n.
C3_PatternLength ==
    returned =>
        /\ Len(result.laghu_guru_pattern) = Len(result.syllable_breakdown)
        /\ Len(result.syllable_breakdown) = Len(syllables)
        /\ \A k \in 1..Len(syllables) :
              /\ result.syllable_breakdown[k].syllable = syllables[k]
              /\ result.syllable_breakdown[k].type
                    = Lower(result.laghu_guru_pattern[k])
              /\ result.syllable_breakdown[k].position = k

C3_Witness ==
    /\ returned
    /\ Len(syllables) = 3
    /\ result.laghu_guru_pattern = <<"G", "L", "G">>

\* C4: every syllable's weight is exactly one of Light ('L', 'l') and Heavy
\* ('G', 'g'), and the Laghu and Guru counts of explanation step 3 add up
\* to the syllable count of step 2.
C4_WeightExclusive ==
    returned =>
        /\ \A k \in 1..Len(result.syllable_breakdown) :
              /\ result.syllable_breakdown[k].type \in {"l", "g"}
              /\ result.laghu_guru_pattern[k] \in {"L", "G"}
        /\ laghu_count(result) + guru_count(result) = syllable_count(result)

C4_Witness ==
    /\ returned
    /\ laghu_count(result) = 2
    /\ guru_count(result) = 1

\* C5: every input of exactly 32 syllables, whatever its weights, gets
\* "Anushtup" with confidence 0.85, and the scan stops at that template.
C5_Anushtup32 ==
    (returned /\ Len(syllables) = 32) =>
        /\ result.chandas_name = "Anushtup"
        /\ result.confidence = 85
        /\ scanned = 1

C5_Witness ==
    /\ returned
    /\ Len(syllables) = 32
    /\ result.laghu_guru_pattern = FourTimes(Quarter8)

\* C6: every input whose pattern is "GGLGGLLGLLG" four times (44
\* syllables) gets "Indravajra" with confidence 0.95.
C6_Indravajra ==
    (returned /\ pattern_str = FourTimes(Indravajra)) =>
        /\ result.chandas_name = "Indravajra"
        /\ result.confidence = 95

C6_Witness ==
    /\ returned
    /\ Len(syllables) = 44
    /\ result.laghu_guru_pattern = FourTimes(Indravajra)

\* C7: a count n >= 1 that is no catalog entry's total_syllables follows
\* the ladder: 8 gives the single-quarter name with 0.75, another multiple
\* of 8 gives "Anushtup (k/4 quarters)", k = n/8, with 0.70 (16 gives
\* "2/4 quarters"), a multiple of 4 but not of 8 gives the name carrying
\* n/4 syllables per quarter with 0.50, every other n "Unknown" with 0.30.
C7_FallbackLadder ==
    LET n == Len(syllables)
    IN  (/\ returned
         /\ n >= 1
         /\ \A k \in 1..Len(InitialCatalog) :
               InitialCatalog[k].total_syllables # n) =>
            /\ n = 8 =>
                  /\ result.chandas_name = "Anushtup (single quarter detected)"
                  /\ result.confidence = 75
            /\ n = 16 => result.chandas_name = "Anushtup (2/4 quarters)"
            /\ (n # 8 /\ n % 8 = 0) =>
                  /\ result.chandas_name
                        = "Anushtup (" \o ToString(n \div 8) \o "/4 quarters)"
                  /\ result.confidence = 70
            /\ (n % 8 # 0 /\ n % 4 = 0) =>
                  /\ result.chandas_name
                        = "Unknown (" \o ToString(n \div 4) \o " syl/quarter)"
                  /\ result.confidence = 50
            /\ n % 4 # 0 =>
                  /\ result.chandas_name = "Unknown"
                  /\ result.confidence = 30

C7_Witness ==
    /\ returned
    /\ Len(syllables) = 16
    /\ result.chandas_name = "Anushtup (2/4 quarters)"
    /\ result.confidence = 70

\* C8: two calls on the same text, in any order and with any other calls
\* in between, return identical results.
C8_Deterministic ==
    \A a \in 1..Len(log), b \in 1..Len(log) :
        log[a].text = log[b].text => log[a].result = log[b].result

\* the same text was given twice with a call on another text in between
C8_Witness ==
    /\ Len(log) = 3
    /\ log[1].text = log[3].text
    /\ log[2].text # log[1].text
    /\ log[1].result.confidence = 95

\* a character that is no Devanagari vowel, consonant or mark, and that
\* the normalisation does not strip
Foreign(c) ==
    c \notin vowels \cup consonants \cup vowel_marks \cup DependentSigns
             \cup {Virama, Anusvara, Visarga} \cup StripChars

\* C9: for an input made only of characters that are no Devanagari vowel,
\* consonant or mark both segmenters return an empty sequence, and
\* detect_chandas returns pattern "", "Unknown" and confidence 0.30.
C9_ForeignTextHasNoSyllable ==
    (/\ returned
     /\ text # <<>>
     /\ \A k \in 1..Len(text) : Foreign(text[k])) =>
        /\ syllables = <<>>
        /\ split_syllables(text) = <<>>
        /\ result.laghu_guru_pattern = <<>>
        /\ result.chandas_name = "Unknown"
        /\ result.confidence = 30

\* the names of the catalog entries that have a fixed pattern
FixedNames ==
    {InitialCatalog[k].name : k \in
        {j \in 1..Len(InitialCatalog) : InitialCatalog[j].pattern # NonePattern}}

\* C10: the confidence is one of 0.95, 0.85, 0.75, 0.70, 0.50, 0.30 and is
\* fixed by the match type: 0.95 iff a fixed-pattern entry matched, 0.85
\* iff the flexible Anushtup entry, 0.75 iff the single-quarter name, 0.70
\* iff a k/4-quarters name, 0.50 iff a per-quarter name, 0.30 iff "Unknown".
C10_ConfidenceByMatchType ==
    returned =>
        LET name == result.chandas_name
            c == result.confidence
            ks == 0..Len(syllables)
        IN  /\ c \in {95, 85, 75, 70, 50, 30}
            /\ c = 95 <=> name \in FixedNames
            /\ c = 85 <=> name = "Anushtup"
            /\ c = 75 <=> name = "Anushtup (single quarter detected)"
            /\ c = 70 <=> \E k \in ks :
                    name = "Anushtup (" \o ToString(k) \o "/4 quarters)"
            /\ c = 50 <=> \E k \in ks :
                    name = "Unknown (" \o ToString(k) \o " syl/quarter)"
            /\ c = 30 <=> name = "Unknown"

\* a fixed-pattern entry other than the first one of its count matched
C10_Witness ==
    /\ returned
    /\ result.chandas_name = "Upendravajra"
    /\ result.confidence = 95

StepNumbers(steps) == [k \in 1..Len(steps) |-> steps[k].step_number]

\* C11: once identify_chandas has called _generate_identification_process,
\* for a result of the language-model path or of detect_chandas, the result
\* holds exactly five steps numbered 1, 2, 3, 4, 5 in that order, and every
\* response carries these five steps.
C11_FiveStepsAlways ==
    /\ cpc \in {"respond", "responded", "raised"} =>
          /\ "identification_process" \in DOMAIN c_result
          /\ StepNumbers(c_result.identification_process) = <<1, 2, 3, 4, 5>>
    /\ cpc = "responded" =>
          StepNumbers(response.identification_process) = <<1, 2, 3, 4, 5>>

\* C13: identify_chandas runs detect_chandas only after the completion call
\* raised (line 79) or after a parsed response with an empty or missing
\* syllable_breakdown (line 256), at most once a request; when the model
\* returns a parsed response with a breakdown the detector never runs for
\* that request.
C13_DetectorOnlyAfterLLMFailure ==
    /\ Len(detector_calls) <= 1
    /\ \A k \in 1..Len(detector_calls) :
          \/ /\ detector_calls[k].line = 79
             /\ llm.kind = "raised"
          \/ /\ detector_calls[k].line = 256
             /\ llm.kind = "json"
             /\ ~HasBreakdown(llm.data)
    /\ pc # "idle" => detector_calls # <<>>
    /\ (llm.kind = "json" /\ HasBreakdown(llm.data)) =>
          /\ detector_calls = <<>>
          /\ pc = "idle"

\* a response built after the fallback of line 256, on an answer without a
\* breakdown
C13_Witness ==
    /\ cpc = "responded"
    /\ llm.kind = "json"
    /\ "syllable_breakdown" \notin DOMAIN llm.data
    /\ Len(detector_calls) = 1
    /\ detector_calls[1].line = 256
    /\ response.syllable_breakdown = result.syllable_breakdown

\* C14: for every non-empty verse analyze_shloka answers with a
\* ShlokaAnalyzeResponse (status 200), not an error, when identify_metre
\* reported detected == false, whatever the optional analysis step did.
C14_UndetectedIsSuccess ==
    (/\ spc = "done"
     /\ caller = "analyze_shloka"
     /\ Strip(verse) # <<>>
     /\ ~metre_info.detected) =>
        http.status = 200

\* C16: every record identify_metre returns has detected == false exactly
\* when its metre is "Unknown".
C16_DetectedUnlessUnknown ==
    "metre" \in DOMAIN metre_info =>
        (~metre_info.detected <=> metre_info.metre = "Unknown")

\* the outer while of split_into_syllables has ended with the index at the
\* end of the text and every character in a syllable
ScanEnded ==
    /\ pc \in {"match", "select", "return", "done"}
    /\ i = Len(norm)
    /\ Flatten(syllables) = norm

\* the while of split_syllables has ended with the index at the end
SplitterEnded ==
    /\ sp_pc = "done"
    /\ sp_i = Len(sp_norm)

\* C15: segmentation terminates on every finite text: each iteration of the
\* outer loop of split_into_syllables and of split_syllables moves the read
\* index forward by at least one character, the index never exceeds the
\* length of the text, and the loop eventually ends with every character
\* consumed.
C15_SegmentationTerminates ==
    /\ [](i <= Len(norm) /\ sp_i <= Len(sp_norm))
    /\ [][ScanStep => i' > i]_vars
    /\ [][SplitterStep => sp_i' > sp_i]_vars
    /\ <>(ScanEnded \/ SplitterEnded)

\* split_syllables has ended on a text with a stripped space and a skipped
\* Latin letter before a consonant
C15_Witness ==
    /\ SplitterEnded
    /\ text = <<"space", "latin_a", "ka">>
    /\ sp_norm = <<"latin_a", "ka">>
    /\ sp_syllables = <<(<<"ka">>)>>

\* the catalog entry of a name
EntryNamed(name) ==
    InitialCatalog[CHOOSE k \in 1..Len(InitialCatalog) :
                        InitialCatalog[k].name = name]

\* C17: a fixed-pattern template of the right count is accepted only if its
\* quarter pattern repeated to the verse's length equals the input pattern
\* or one of the two is a substring of the other; a verse that merely
\* contains the one-quarter pattern is not accepted with 0.95.
C17_FixedNeedsWholePattern ==
    (returned /\ result.confidence = 95) =>
        LET whole == FourTimes(EntryNamed(result.chandas_name).pattern)
        IN  \/ whole = pattern_str
            \/ IsSubstring(whole, pattern_str)
            \/ IsSubstring(pattern_str, whole)

\* C18: of the templates that share the count 44 the first one in catalog
\* order whose pattern test passes is returned and the scan stops there: a
\* pattern that passes both tests gives Indravajra, and "LGLGGLLGLLG" four
\* times gives Upendravajra with 0.95, the scan having gone past Indravajra.
C18_FirstPassingTemplate ==
    (returned /\ Len(syllables) = 44) =>
        /\ IsSubstring(Indravajra, pattern_str) =>
              /\ result.chandas_name = "Indravajra"
              /\ result.confidence = 95
              /\ scanned = 2
        /\ (~IsSubstring(Indravajra, pattern_str)
               /\ IsSubstring(Upendravajra, pattern_str)) =>
              /\ result.chandas_name = "Upendravajra"
              /\ result.confidence = 95
              /\ scanned = 3
        /\ pattern_str = FourTimes(Upendravajra) =>
              /\ result.chandas_name = "Upendravajra"
              /\ result.confidence = 95

\* a verse of 44 syllables that passes the test of both templates
C18_Witness ==
    /\ returned
    /\ Len(syllables) = 44
    /\ IsSubstring(Indravajra, pattern_str)
    /\ IsSubstring(Upendravajra, pattern_str)
    /\ result.chandas_name = "Indravajra"

\* a name the fallback ladder gives
IsLadderName(name, n) ==
    \/ name = "Anushtup (single quarter detected)"
    \/ name = "Unknown"
    \/ \E k \in 0..n : name = "Anushtup (" \o ToString(k) \o "/4 quarters)"
    \/ \E k \in 0..n : name = "Unknown (" \o ToString(k) \o " syl/quarter)"

\* C19 as claimed: an input of 44, 56, 60 or 76 syllables never receives an
\* "Anushtup (k/4 quarters)" name or a per-quarter name.
C19_NoLadderOnCatalogCount ==
    (returned /\ Len(syllables) \in {44, 56, 60, 76}) =>
        \A k \in 0..Len(syllables) :
            /\ result.chandas_name
                  # "Anushtup (" \o ToString(k) \o "/4 quarters)"
            /\ result.chandas_name
                  # "Unknown (" \o ToString(k) \o " syl/quarter)"

\* the scan accepts the entry e for n syllables of pattern p
Accepts(e, n, p) ==
    /\ e.total_syllables = n
    /\ \/ e.pattern = NonePattern
       \/ IsSubstring(e.pattern, p)
       \/ IsSubstring(p, e.pattern)

\* C19 as amended: the fallback ladder is entered exactly when the catalog
\* scan accepted no template, that is when no template has both the count
\* and a passing pattern test; an input of 44, 56, 60 or 76 syllables gets
\* a ladder name exactly when no fixed pattern of its count passes.
C19_LadderIffNothingAccepted ==
    returned =>
        LET n == Len(syllables)
            accepted == \E k \in 1..Len(InitialCatalog) :
                            Accepts(InitialCatalog[k], n, pattern_str)
        IN  /\ IsLadderName(result.chandas_name, n) <=> ~accepted
            /\ accepted =>
                  \E k \in 1..Len(InitialCatalog) :
                      /\ InitialCatalog[k].name = result.chandas_name
                      /\ Accepts(InitialCatalog[k], n, pattern_str)

\* 56 syllables whose pattern has no Vasantatilaka quarter
C19_Witness ==
    /\ returned
    /\ Len(syllables) = 56
    /\ result.chandas_name = "Anushtup (7/4 quarters)"
    /\ result.confidence = 70

\* C20: every catalog entry has total_syllables = 4 * syllables_per_line,
\* and every fixed pattern has exactly syllables_per_line symbols, each 'L'
\* or 'G'.
C20_CatalogConsistent ==
    \A k \in 1..Len(CHANDAS_PATTERNS) :
        LET e == CHANDAS_PATTERNS[k]
        IN  /\ e.total_syllables = 4 * e.syllables_per_line
            /\ e.pattern # NonePattern =>
                  /\ Len(e.pattern) = e.syllables_per_line
                  /\ \A j \in 1..Len(e.pattern) : e.pattern[j] \in {"L", "G"}

\* the syllables either segmenter has emitted
Emitted == {syllables[k] : k \in 1..Len(syllables)}
               \cup {sp_syllables[k] : k \in 1..Len(sp_syllables)}

\* C21: in a syllable that begins with a consonant every virama is
\* immediately followed by a consonant of the same syllable: a virama that
\* no consonant follows is not made part of the syllable, in
\* split_into_syllables as in split_syllables.
C21_ViramaOnlyBeforeConsonant ==
    \A syl \in Emitted :
        syl[1] \in consonants =>
            \A j \in 1..Len(syl) :
                syl[j] = Virama =>
                    /\ j < Len(syl)
                    /\ syl[j + 1] \in consonants

\* C22: a dependent vowel sign that immediately follows a consonant or a
\* conjunct is appended to that consonant's syllable: no syllable of
\* split_syllables begins with a vowel sign, and no syllable of
\* split_into_syllables begins with a vowel sign when the syllable before
\* it ends with a consonant.
C22_SignJoinsItsConsonant ==
    /\ \A k \in 1..Len(sp_syllables) : sp_syllables[k][1] \notin vowel_marks
    /\ \A k \in 2..Len(syllables) :
          syllables[k][1] \in vowel_marks =>
              syllables[k - 1][Len(syllables[k - 1])] \notin consonants

\* the characters that end a verse line
LineEnds == {"danda", "double_danda", "nl"}

\* C24: the final syllable of every verse line of the input, the syllable
\* immediately before a danda, a double danda or a newline as well as the
\* last syllable of the text, is classified 'G'.
C24_LineEndIsHeavy ==
    returned =>
        /\ Len(syllables) > 0 => pattern_str[Len(syllables)] = "G"
        /\ \A j \in 1..Len(text) :
              text[j] \in LineEnds =>
                  LET before == split_into_syllables(SubSeq(text, 1, j - 1))
                      k == Len(before.syllables)
                  IN  k > 0 => pattern_str[k] = "G"

\* the long vowels of the claim: आ ई ऊ ए ऐ ओ औ and the signs ा ी ू े ै ो ौ
ClaimedLongVowels ==
    {"aa", "ii", "uu", "e", "ai", "o", "au",
     "sign_aa", "sign_ii", "sign_uu", "sign_e", "sign_ai", "sign_o", "sign_au"}

\* C23: classify_syllable(s, is_line_end) returns 'G' exactly when
\* is_line_end is true, or s contains a long vowel or its sign, a virama,
\* an anusvara or a visarga; in every other case it returns 'L'.
C23_HeavyExactlyWhen ==
    w_classification # Null =>
        /\ w_classification.str \in {"G", "L"}
        /\ w_classification.str = "G" <=>
              \/ w_is_line_end
              \/ \E c \in ClaimedLongVowels : Contains(w_syllable, c)
              \/ Contains(w_syllable, Virama)
              \/ Contains(w_syllable, Anusvara)
              \/ Contains(w_syllable, Visarga)

\* a consonant with a short vowel sign, not at a line end, is light
C23_Witness ==
    /\ w_syllable = <<"ka", "sign_i">>
    /\ ~w_is_line_end
    /\ w_classification = Str("L")

\* C25: apart from the line-end rule the two classifiers agree: for every
\* syllable s, classify_syllable(s, False) returns 'G' exactly when
\* is_guru(s) returns True.
C25_ClassifiersAgree ==
    (/\ w_classification # Null
     /\ w_guru # Null
     /\ ~w_is_line_end) =>
        (w_classification.str = "G" <=> w_guru.bool)

\* C27: a pattern equal to the quarter pattern of a fixed meter of the
\* table repeated four times is identified as that meter with confidence
\* 1.0.
C27_FourQuartersIsExact ==
    m_meter # Null =>
        \A k \in 1..Len(meters) :
            (/\ meters[k].pattern # NonePattern
             /\ m_pattern = FourTimes(meters[k].pattern)) =>
                m_meter = [name |-> meters[k].name, confidence |-> 100]

\* identify_metre has returned
MetreReturned == metre_info # Null

\* the libraries the call consulted, in order
Consulted == [k \in 1..Len(strategy_calls) |-> strategy_calls[k].library]

\* a library produced a result: Chandojnanam a found metre with a non-empty
\* list, stuti-chandas a non-empty dict
Produced(call) ==
    IF call.library = "Chandojnanam" THEN IsChandaHit(call.outcome)
    ELSE call.outcome.kind = "result" /\ DOMAIN call.outcome.dict # {}

\* C26: identify_metre consults Chandojnanam, then stuti-chandas, then
\* Unknown: stuti-chandas is called only if Chandojnanam was unavailable,
\* raised or reported no found metre with a non-empty list; the Unknown
\* record is returned only if neither library produced a result; an empty
\* or whitespace-only verse returns the Unknown record without a call of
\* either library; and whatever a library raises, the call goes on and
\* returns a record.
C26_StrategiesInOrder ==
    /\ spc \in {"idle", "validate", "identify", "chanda", "identify_line",
                "stuti", "unknown", "llm", "build", "done"}
    /\ Consulted \in {<<>>, <<"Chandojnanam">>, <<"stuti">>,
                      <<"Chandojnanam", "stuti">>}
    /\ \A k \in 1..Len(strategy_calls) :
          strategy_calls[k].library = "stuti" =>
              \A j \in 1..(k - 1) : ~Produced(strategy_calls[j])
    /\ MetreReturned =>
          /\ metre_info.metre \in {"Unknown", "Anushtup"}
          /\ metre_info = UnknownMetre =>
                \A k \in 1..Len(strategy_calls) : ~Produced(strategy_calls[k])
          /\ Strip(verse) = <<>> =>
                (strategy_calls = <<>> /\ metre_info = UnknownMetre)

\* both libraries raised and the call returned the Unknown record
C26_Witness ==
    /\ Len(strategy_calls) = 2
    /\ strategy_calls[1].outcome.kind = "raised"
    /\ strategy_calls[2].outcome.kind = "raised"
    /\ metre_info = UnknownMetre

\* C30: over any sequence of calls _get_chanda_instance attempts the
\* construction at most once per process: once _chanda_instance is set it
\* never changes, after a successful construction every call returns that
\* instance, and after a failed one every call returns None with no new
\* attempt.
C30_ConstructedAtMostOnce ==
    [][/\ constructions' <= 1
       /\ chanda_instance # None =>
             (chanda_instance' = chanda_instance
              /\ constructions' = constructions)
       /\ chanda' # Null =>
             chanda'.returned = IF chanda_instance' = "Chanda" THEN "Chanda"
                                ELSE None]_vars

\* a later request found the failure recorded and got None
C30_Witness ==
    /\ served >= 1
    /\ chanda = [returned |-> None]
    /\ chanda_instance = "False"
    /\ constructions = 1

\* the name is that of Anushtup or one the ladder derives from it
NamesAnushtup(name) ==
    \/ name = "Anushtup"
    \/ name = SingleQuarterName
    \/ \E k \in 0..MaxRun : name = QuartersName(k)

\* C28: when the tracer is given a result of detect_chandas, the step-4
\* rationale agrees with the reported meter: it says the count matches the
\* Anushtup structure, was matched against the Indravajra/Upendravajra
\* templates, matches the Vasantatilaka structure or is a likely Anushtup
\* variant only when chandas_name names that meter.
C28_RationaleAgreesWithMeter ==
    (/\ cpc \in {"respond", "responded"}
     /\ llm.kind = "raised") =>
        LET step == c_result.identification_process[4].result
            name == step.matched.str
        IN  /\ step.explanation = "matches Anushtup meter structure" =>
                  NamesAnushtup(name)
            /\ step.explanation
                  = "matched against Indravajra/Upendravajra templates" =>
                  name \in {"Indravajra", "Upendravajra"}
            /\ step.explanation = "matches Vasantatilaka structure" =>
                  name = "Vasantatilaka"
            /\ step.explanation = "Likely Anushtup variant" =>
                  NamesAnushtup(name)

\* C29: whenever a response carries a syllable_breakdown and a
\* laghu_guru_pattern computed by detect_chandas, detect_chandas was called
\* on the shloka of the request and on no other text.
C29_BreakdownFromShloka ==
    cpc = "responded" =>
        \A k \in 1..Len(detector_calls) : detector_calls[k].text = shloka

=============================================================================
